---- MODULE Spec2Model ----
(***************************************************************************)
(* Model of backend/db_utils.py: the database maintenance command line of  *)
(* the Meeting Analyzer (check_database, backup_database,                  *)
(* clean_orphaned_files and main).                                         *)
(*                                                                         *)
(* The state is the part of the host the script reads and writes (the      *)
(* data directory, the database file and its two tables, the backup        *)
(* directory, the upload and PDF directories, the clock) and the state of  *)
(* one process running main (its argv, its position, the locals of         *)
(* clean_orphaned_files, the return values, what it printed).              *)
(***************************************************************************)
EXTENDS Integers, Sequences, FiniteSets, TLC

(* ------------------------------ bounds -------------------------------- *)
\* names that can appear in UPLOAD_DIR
NumFiles == 2
\* rows of the two tables together, where the tables are enumerated in full
MaxRows == 2
\* length of the command line
MaxArgs == 3
\* invocations of the script in a row
MaxRuns == 2

(* ------------------------------ values -------------------------------- *)
Ops == <<"check", "backup", "clean">>
OpSet == {"check", "backup", "clean"}
FlagOf(op) == IF op = "check" THEN "--check"
              ELSE IF op = "backup" THEN "--backup" ELSE "--clean"
AllFlags == {FlagOf(op) : op \in OpSet}

UploadNames == 1..NumFiles
PdfNames == {1}
Kinds == {"none", "file", "dir"}

\* a value of a path column: SQL NULL, the empty string, or a path string
NULL == <<"NULL", 0>>
EMPTY == <<"", 0>>
\* os.path.join(settings.UPLOAD_DIR, file) / os.path.join(settings.PDF_DIR, file)
JoinPath(dir, file) == <<dir, file>>
UploadPaths == {JoinPath("UPLOAD_DIR", n) : n \in UploadNames}
PdfPaths == {JoinPath("PDF_DIR", n) : n \in PdfNames}
PathVals == {NULL, EMPTY} \cup UploadPaths \cup PdfPaths

\* what the operator types at the prompt; EOF is input() raising EOFError
EOF == "<EOF>"
Answers == {"y", "Y", "n", "", "yes", EOF}

VARIABLES
    \* ---- host ----
    dataDir,      \* DATA_DIR exists
    dbState,      \* DATA_DIR/meetings.db: "absent", "corrupt" (no tables), "ok"
    meetings,     \* audio_path of each row of meetings
    pdfs,         \* file_path of each row of pdfs
    backupsDir,   \* DATA_DIR/backups exists
    backups,      \* timestamp |-> content of DATA_DIR/backups/meetings_<timestamp>.db
    uploadDir,    \* UPLOAD_DIR exists
    uploads,      \* name |-> kind of the entry of UPLOAD_DIR
    pdfDir,       \* PDF_DIR exists
    pdfFiles,     \* name |-> kind of the entry of PDF_DIR
    now,          \* the clock, in seconds
    \* ---- process ----
    argv,         \* the command line
    run,          \* number of this invocation
    pc,           \* position in main
    upload_files, \* clean_orphaned_files: orphaned uploads found
    pdf_files,    \* clean_orphaned_files: orphaned PDFs found
    todo,         \* clean_orphaned_files: rest of the deletion loop
    deleted_count,
    answer,       \* what input() returned ("" before the prompt is answered)
    unclosed,     \* operations whose connection has been opened and not close()d
    ret,          \* return value of each operation in this invocation
    log,          \* what this invocation printed, in order
    \* ---- history ----
    pre,          \* the host as it was when the running operation was called
    hist          \* the operations that have returned, oldest first

host == <<dataDir, dbState, meetings, pdfs, backupsDir, backups,
          uploadDir, uploads, pdfDir, pdfFiles>>
locals == <<upload_files, pdf_files, todo, deleted_count, answer>>
vars == <<host, now, argv, run, pc, locals, unclosed, ret, log, pre, hist>>

\* the files and directories the script can touch, as one value
FS == [dataDir |-> dataDir, dbState |-> dbState, meetings |-> meetings,
       pdfs |-> pdfs, backupsDir |-> backupsDir, backups |-> backups,
       uploadDir |-> uploadDir, uploads |-> uploads,
       pdfDir |-> pdfDir, pdfFiles |-> pdfFiles]

(* ------------------------------ helpers ------------------------------- *)
\* argparse with three store_true flags: a flag is set iff it occurs in argv
Given(a, op) == \E i \in DOMAIN a : a[i] = FlagOf(op)
ParseArgs(a) == [op \in OpSet |-> Given(a, op)]

\* mutant: the three tests chained with elif, so only the first selected
\* operation runs
NextCallElif(args, i) ==
    IF i > 1 THEN "exit"
    ELSE IF args["check"] THEN "check"
    ELSE IF args["backup"] THEN "backup"
    ELSE IF args["clean"] THEN "clean" ELSE "exit"

\* lines 171-178: the next selected operation at or after position i, else exit
RECURSIVE NextCall(_, _)
NextCall(args, i) ==
    IF i > Len(Ops) THEN "exit"
    ELSE IF args[Ops[i]] THEN Ops[i]
    ELSE NextCall(args, i + 1)

OpIndex(op) == CHOOSE i \in DOMAIN Ops : Ops[i] = op
\* where main continues after operation op has returned
After(op) == NextCall(ParseArgs(argv), OpIndex(op) + 1)

\* print(...)
Line(op, msg, n) == [op |-> op, msg |-> msg, n |-> n]
Printed(op, msg) == \E i \in DOMAIN log : log[i].op = op /\ log[i].msg = msg

\* mutant: the test looks at DATA_DIR instead of the database file
DbExistsChecksDir == dataDir

\* os.path.exists(db_path)
DbExists == dbState # "absent"

\* the bytes of the database file
DbContent == [meetings |-> meetings, pdfs |-> pdfs, whole |-> TRUE]
\* a half-written copy
Truncated == [meetings |-> <<>>, pdfs |-> <<>>, whole |-> FALSE]

\* mutant: the name carries the day only
BackupNameByDay(t) == 0

\* datetime.now().strftime("%Y%m%d_%H%M%S"): one name per second
BackupName(t) == t

\* mutant: the destination is created but nothing is copied into it
CopyToEmpty(files, name, content) ==
    [n \in DOMAIN files \cup {name} |->
        IF n = name THEN [meetings |-> <<>>, pdfs |-> <<>>, whole |-> FALSE]
        ELSE files[n]]

\* shutil.copy2(db_path, backup_path): creates or overwrites the destination
CopyTo(files, name, content) ==
    [n \in DOMAIN files \cup {name} |-> IF n = name THEN content ELSE files[n]]

\* the value of row[0] is true in Python: neither None nor ''
Truthy(v) == v # NULL /\ v # EMPTY
\* lines 104, 108: [row[0] for row in cursor.fetchall() if row[0]]
DbPaths(rows) == SelectSeq(rows, Truthy)
\* x in list
InList(x, l) == \E i \in DOMAIN l : l[i] = x

\* os.listdir(dir): the names of the entries, in an order the host chooses
ListDir(entries) ==
    LET present == {n \in DOMAIN entries : entries[n] # "none"}
    IN  {s \in [1..Cardinality(present) -> present] :
            \A i, j \in DOMAIN s : i # j => s[i] # s[j]}
\* os.path.isfile(file_path)
IsFile(entries, n) == entries[n] = "file"

\* mutant: os.path.isfile is not tested, so subdirectories count as orphans
OrphanedInAnyEntry(dir, entries, listing, dbPaths) ==
    LET Keep(n) == ~InList(JoinPath(dir, n), dbPaths)
        kept == SelectSeq(listing, Keep)
    IN  [i \in DOMAIN kept |-> JoinPath(dir, kept[i])]

\* lines 111-115 and 118-122: the listed entries that are files and whose
\* joined path is not among the database paths, in listing order
OrphanedIn(dir, entries, listing, dbPaths) ==
    LET Keep(n) == IsFile(entries, n) /\ ~InList(JoinPath(dir, n), dbPaths)
        kept == SelectSeq(listing, Keep)
    IN  [i \in DOMAIN kept |-> JoinPath(dir, kept[i])]

\* str.lower() on the answers the operator can give
Lower(s) == IF s = "Y" THEN "y" ELSE s
\* mutant: everything but "n" confirms
ConfirmedUnlessNo(ans) == Lower(ans) # "n"

\* line 133: input(...).lower() != 'y' is false
Confirmed(ans) == Lower(ans) = "y"

\* mutant: the test looks at whether the directories hold any file, not at
\* the orphans found
NothingToDoIfNoFiles(uf, pf) ==
    /\ \A n \in DOMAIN uploads : uploads[n] # "file"
    /\ \A n \in DOMAIN pdfFiles : pdfFiles[n] # "file"

\* line 128: not upload_files and not pdf_files
NothingToDo(uf, pf) == uf = <<>> /\ pf = <<>>

\* mutant: os.remove is not guarded inside the loop, so the first failure
\* ends the loop
StopAtFailure(rest, ok) == IF ok THEN Tail(rest) ELSE <<>>

\* lines 139-144: the loop goes on to the next file whether or not os.remove
\* raised, the exception being caught inside the loop body
RestOfLoop(rest, ok) == Tail(rest)

\* os.remove(path) succeeding: the entry is gone
RemoveEntry(entries, n) == [entries EXCEPT ![n] = "none"]

Range(s) == {s[i] : i \in DOMAIN s}

\* the record of an operation that has returned: found is what it identified
\* as orphaned, count the deleted count it printed
Returned(op, outcome, result, ans, leak, before, after) ==
    [op |-> op, run |-> run, at |-> now, outcome |-> outcome, ret |-> result,
     ans |-> ans, unclosed |-> leak, before |-> before, after |-> after,
     found |-> Range(upload_files) \cup Range(pdf_files),
     count |-> deleted_count]

\* the locals of clean_orphaned_files are gone when it returns
NoLocals ==
    /\ upload_files' = <<>>
    /\ pdf_files' = <<>>
    /\ todo' = <<>>
    /\ deleted_count' = 0
    /\ answer' = ""

\* an operation returns result to main; leak: its connection was opened and
\* not close()d. The caller fixes the host's next state first.
Return(op, outcome, result, ans, leak, before, lines) ==
    /\ log' = log \o lines
    /\ ret' = [ret EXCEPT ![op] = result]
    /\ unclosed' = IF leak THEN unclosed \cup {op} ELSE unclosed \ {op}
    /\ pc' = After(op)
    /\ pre' = before
    /\ hist' = Append(hist, Returned(op, outcome, result, ans, leak, before, FS'))

\* the exceptions the operations can meet: a failed query, a missing directory
\* in os.listdir, a failed makedirs or copy, end of input at the prompt
Faults == {"sqlite3.DatabaseError", "FileNotFoundError", "OSError", "EOFError"}

\* mutant: the handlers catch database errors only
CaughtDatabaseOnly(fault) == fault = "sqlite3.DatabaseError"

\* lines 62, 86, 150: except Exception catches every one of them
Caught(fault) == fault \in Faults

\* an exception is raised inside the try block of op: the handler prints it
\* and op returns False; an exception it does not catch leaves main
Raise(op, fault, ans, leak, before) ==
    IF Caught(fault)
    THEN Return(op, "error", "False", ans, leak, before,
                <<Line(op, "Error", 0)>>)
    ELSE /\ log' = Append(log, Line("main", "Traceback", 0))
         /\ pc' = "crashed"
         /\ unclosed' = IF leak THEN unclosed \cup {op} ELSE unclosed \ {op}
         /\ pre' = before
         /\ hist' = Append(hist, Returned(op, "raised", "none", ans, leak, before, FS'))
         /\ UNCHANGED ret

(* ------------------------------- main --------------------------------- *)
\* lines 154-169: parse, print help and return, or create DATA_DIR
Main ==
    /\ pc = "start"
    /\ LET args == ParseArgs(argv)
       IN  IF ~(args["check"] \/ args["backup"] \/ args["clean"])
           THEN /\ log' = Append(log, Line("main", "usage", 0))
                /\ pc' = "exit"
                /\ UNCHANGED dataDir
           ELSE /\ dataDir' = TRUE
                /\ pc' = NextCall(args, 1)
                /\ UNCHANGED log
    /\ UNCHANGED <<dbState, meetings, pdfs, backupsDir, backups, uploadDir,
                   uploads, pdfDir, pdfFiles, now, argv, run, locals,
                   unclosed, ret, pre, hist>>

(* --------------------------- check_database --------------------------- *)
\* lines 25-64
CheckDatabase ==
    /\ pc = "check"
    /\ UNCHANGED <<host, now, argv, run, locals>>
    /\ IF ~DbExists
       THEN Return("check", "notfound", "False", "", FALSE, FS,
                   <<Line("check", "Database not found", 0)>>)
       ELSE IF dbState = "corrupt"
       THEN \* connect succeeds, the first execute raises: lines 62-64
            Raise("check", "sqlite3.DatabaseError", "", TRUE, FS)
       ELSE Return("check", "ok", "True", "", FALSE, FS,
                   <<Line("check", "Database Status", 0),
                     Line("check", "Meetings", Len(meetings)),
                     Line("check", "PDF records", Len(pdfs)),
                     Line("check", "Integrity check", 0)>>)

(* --------------------------- backup_database -------------------------- *)
CopyOutcomes == {"ok", "makedirs failed", "copy failed", "copy cut short"}

\* lines 66-88
BackupDatabase ==
    /\ pc = "backup"
    /\ UNCHANGED <<dataDir, dbState, meetings, pdfs, uploadDir, uploads,
                   pdfDir, pdfFiles, now, argv, run, locals>>
    /\ IF ~DbExists
       THEN /\ UNCHANGED <<backupsDir, backups>>
            /\ Return("backup", "notfound", "False", "", FALSE, FS,
                      <<Line("backup", "Database not found", 0)>>)
       ELSE \E o \in CopyOutcomes :
            /\ backupsDir' = IF o = "makedirs failed" THEN backupsDir ELSE TRUE
            /\ backups' = IF o = "ok"
                          THEN CopyTo(backups, BackupName(now), DbContent)
                          ELSE IF o = "copy cut short"
                          THEN CopyTo(backups, BackupName(now), Truncated)
                          ELSE backups
            /\ IF o = "ok"
               THEN Return("backup", "ok", "True", "", FALSE, FS,
                           <<Line("backup", "Database backed up to", BackupName(now))>>)
               ELSE Raise("backup", "OSError", "", FALSE, FS)

(* ------------------------ clean_orphaned_files ------------------------ *)
\* lines 90-130: up to the prompt
CleanScan ==
    /\ pc = "clean"
    /\ UNCHANGED <<host, now, argv, run>>
    /\ IF ~DbExists
       THEN /\ NoLocals
            /\ Return("clean", "notfound", "False", "", FALSE, FS,
                      <<Line("clean", "Database not found", 0)>>)
       ELSE IF dbState = "corrupt" \/ ~uploadDir \/ ~pdfDir
       THEN \* a query or os.listdir raises: lines 150-152
            /\ NoLocals
            /\ Raise("clean", IF dbState = "corrupt" THEN "sqlite3.DatabaseError"
                               ELSE "FileNotFoundError", "", TRUE, FS)
       ELSE \E ul \in ListDir(uploads), pl \in ListDir(pdfFiles) :
            LET db_audio_paths == DbPaths(meetings)
                db_pdf_paths == DbPaths(pdfs)
                uf == OrphanedIn("UPLOAD_DIR", uploads, ul, db_audio_paths)
                pf == OrphanedIn("PDF_DIR", pdfFiles, pl, db_pdf_paths)
                found == <<Line("clean", "orphaned upload files", Len(uf)),
                           Line("clean", "orphaned PDF files", Len(pf))>>
            IN  IF NothingToDo(uf, pf)
                THEN /\ NoLocals
                     /\ Return("clean", "nothing", "True", "", TRUE, FS,
                               found \o <<Line("clean", "No orphaned files to clean up", 0)>>)
                ELSE /\ upload_files' = uf
                     /\ pdf_files' = pf
                     /\ log' = log \o found \o <<Line("clean", "prompt", 0)>>
                     /\ unclosed' = unclosed \cup {"clean"}
                     /\ pc' = "prompt"
                     /\ pre' = FS
                     /\ UNCHANGED <<todo, deleted_count, answer, ret, hist>>

\* lines 133-139: the operator answers the prompt
CleanConfirm(ans) ==
    /\ pc = "prompt"
    /\ UNCHANGED <<host, now, argv, run>>
    /\ IF ans = EOF
       THEN \* input() raises: lines 150-152
            /\ NoLocals
            /\ Raise("clean", "EOFError", ans, TRUE, pre)
       ELSE IF ~Confirmed(ans)
       THEN /\ NoLocals
            /\ Return("clean", "aborted", "False", ans, TRUE, pre,
                      <<Line("clean", "Cleanup aborted", 0)>>)
       ELSE /\ answer' = ans
            /\ deleted_count' = 0
            /\ todo' = upload_files \o pdf_files
            /\ pc' = "delete"
            /\ UNCHANGED <<upload_files, pdf_files, unclosed, ret, log, pre, hist>>

\* lines 139-144: one iteration of the deletion loop; ok: os.remove succeeds
CleanDelete(ok) ==
    /\ pc = "delete"
    /\ todo # <<>>
    /\ LET file_path == Head(todo)
           dir == file_path[1]
           n == file_path[2]
       IN  /\ uploads' = IF ok /\ dir = "UPLOAD_DIR"
                         THEN RemoveEntry(uploads, n) ELSE uploads
           /\ pdfFiles' = IF ok /\ dir = "PDF_DIR"
                          THEN RemoveEntry(pdfFiles, n) ELSE pdfFiles
           /\ deleted_count' = IF ok THEN deleted_count + 1 ELSE deleted_count
           /\ log' = IF ok THEN log
                     ELSE Append(log, Line("clean", "Failed to delete", file_path))
    /\ todo' = RestOfLoop(todo, ok)
    /\ UNCHANGED <<dataDir, dbState, meetings, pdfs, backupsDir, backups,
                   uploadDir, pdfDir, now, argv, run, pc, upload_files,
                   pdf_files, answer, unclosed, ret, pre, hist>>

\* lines 146-148: the loop is over
CleanFinish ==
    /\ pc = "delete"
    /\ todo = <<>>
    /\ UNCHANGED <<host, now, argv, run>>
    /\ NoLocals
    /\ Return("clean", "deleted", "True", answer, FALSE, pre,
              <<Line("clean", "Deleted orphaned files", deleted_count)>>)

(* ----------------------------- the shell ------------------------------ *)
\* the same command line is run again, dt seconds later, in a new process
Reinvoke(dt) ==
    /\ pc = "exit"
    /\ run < MaxRuns
    /\ run' = run + 1
    /\ now' = now + dt
    /\ pc' = "start"
    /\ unclosed' = {}
    /\ ret' = [op \in OpSet |-> "none"]
    /\ log' = <<>>
    /\ UNCHANGED <<host, argv, locals, pre, hist>>

(* --------------------------- initial states --------------------------- *)
SeqsUpTo(S, k) == UNION {[1..n -> S] : n \in 0..k}
\* the two tables, with at most k rows together
Tables(k) == {t \in SeqsUpTo(PathVals, k) \X SeqsUpTo(PathVals, k) :
                 Len(t[1]) + Len(t[2]) <= k}
NoEntries(names) == [n \in names |-> "none"]

\* command lines that give each flag at most once, in the order of the help text
CanonArgv == {a \in SeqsUpTo(AllFlags, Len(Ops)) :
                 \A i, j \in DOMAIN a :
                     i < j => \E k, l \in DOMAIN Ops :
                                 k < l /\ a[i] = FlagOf(Ops[k]) /\ a[j] = FlagOf(Ops[l])}

InitProcess ==
    /\ now = 1
    /\ run = 1
    /\ pc = "start"
    /\ upload_files = <<>>
    /\ pdf_files = <<>>
    /\ todo = <<>>
    /\ deleted_count = 0
    /\ answer = ""
    /\ unclosed = {}
    /\ ret = [op \in OpSet |-> "none"]
    /\ log = <<>>
    /\ hist = <<>>

\* a host with the tables bounded by k rows and no backup yet
InitHost(k) ==
    /\ dataDir \in BOOLEAN
    /\ dbState \in IF dataDir THEN {"absent", "corrupt", "ok"} ELSE {"absent"}
    /\ \E t \in IF dbState = "ok" THEN Tables(k) ELSE {<<<<>>, <<>>>>} :
          meetings = t[1] /\ pdfs = t[2]
    /\ backupsDir = FALSE
    /\ backups = <<>>
    /\ uploadDir \in BOOLEAN
    /\ uploads \in IF uploadDir THEN [UploadNames -> Kinds]
                   ELSE {NoEntries(UploadNames)}
    /\ pdfDir \in BOOLEAN
    /\ pdfFiles \in IF pdfDir THEN [PdfNames -> Kinds] ELSE {NoEntries(PdfNames)}

\* every host with at most one row, every selection of operations
Init ==
    /\ InitHost(1)
    /\ argv \in CanonArgv
    /\ InitProcess
    /\ pre = FS

Next ==
    \/ Main
    \/ CheckDatabase
    \/ BackupDatabase
    \/ CleanScan
    \/ \E ans \in Answers : CleanConfirm(ans)
    \/ \E ok \in BOOLEAN : CleanDelete(ok)
    \/ CleanFinish

Spec == Init /\ [][Next]_vars

(* --------------------- orphan detection in full ----------------------- *)
\* clean_orphaned_files up to the prompt, over every content of the tables
\* of at most MaxRows rows and every content of the two directories
InitScan ==
    /\ InitHost(MaxRows)
    /\ dbState = "ok"
    /\ argv = <<"--clean">>
    /\ InitProcess
    /\ pre = FS

NextScan ==
    \/ Main
    \/ CleanScan

SpecScan == InitScan /\ [][NextScan]_vars

(* ------------------------ every command line -------------------------- *)
\* main over every command line of at most MaxArgs flags, in any order and
\* with repetitions, on hosts with an empty database or none
InitArgv ==
    /\ dataDir \in BOOLEAN
    /\ dbState \in IF dataDir THEN {"absent", "ok"} ELSE {"absent"}
    /\ meetings = <<>>
    /\ pdfs = <<>>
    /\ backupsDir = FALSE
    /\ backups = <<>>
    /\ uploadDir = TRUE
    /\ uploads \in {NoEntries(UploadNames), [n \in UploadNames |-> "file"]}
    /\ pdfDir = TRUE
    /\ pdfFiles = NoEntries(PdfNames)
    /\ argv \in SeqsUpTo(AllFlags, MaxArgs)
    /\ InitProcess
    /\ pre = FS

SpecArgv == InitArgv /\ [][Next]_vars

(* ------------------------- repeated invocation ------------------------ *)
\* one operation run up to MaxRuns times in a row on the same host
InitRepeat ==
    /\ dataDir = TRUE
    /\ dbState \in {"absent", "ok"}
    /\ meetings \in IF dbState = "ok"
                    THEN {<<>>, <<JoinPath("UPLOAD_DIR", 1)>>} ELSE {<<>>}
    /\ pdfs = <<>>
    /\ backupsDir = FALSE
    /\ backups = <<>>
    /\ uploadDir = TRUE
    /\ uploads = [n \in UploadNames |-> "file"]
    /\ pdfDir = TRUE
    /\ pdfFiles \in [PdfNames -> {"none", "file"}]
    /\ argv \in {<<FlagOf(op)>> : op \in OpSet}
    /\ InitProcess
    /\ pre = FS

NextRepeat ==
    \/ Next
    \/ \E dt \in {0, 1} : Reinvoke(dt)

SpecRepeat == InitRepeat /\ [][NextRepeat]_vars

(* ============================== claims ================================ *)
\* the operations called so far in this invocation, in call order
ThisRun == SelectSeq(hist, LAMBDA r : r.run = run)
Last == hist[Len(hist)]
\* the files among the entries of a directory
FilesOf(dir, entries) == {JoinPath(dir, n) : n \in {m \in DOMAIN entries : entries[m] = "file"}}
\* the files of UPLOAD_DIR and PDF_DIR in a snapshot of the host
FilesIn(fs) == FilesOf("UPLOAD_DIR", fs.uploads) \cup FilesOf("PDF_DIR", fs.pdfFiles)
\* the orphans of a directory as the specification defines them: the files
\* whose path equals no non-null, non-empty value of the column
Uncovered(dir, entries, rows) ==
    {f \in FilesOf(dir, entries) :
        \A i \in DOMAIN rows : rows[i] = NULL \/ rows[i] = EMPTY \/ rows[i] # f}
OrphanUploads(fs) == Uncovered("UPLOAD_DIR", fs.uploads, fs.meetings)
OrphanPdfs(fs) == Uncovered("PDF_DIR", fs.pdfFiles, fs.pdfs)
\* the scan of clean_orphaned_files gets as far as the counts
Scannable(fs) == fs.dbState = "ok" /\ fs.uploadDir /\ fs.pdfDir
IsYes(ans) == ans \in {"y", "Y"}
Failures == {i \in DOMAIN log : log[i].msg = "Failed to delete"}

\* C1: whenever an operation is called with the database file absent, it
\* prints "Database not found", returns False and leaves every file and
\* directory as it was; clean_orphaned_files then identifies nothing and the
\* operator is not prompted.
C1_AbsentDatabaseFails ==
    /\ \A i \in DOMAIN hist :
          hist[i].before.dbState = "absent" =>
              /\ hist[i].outcome = "notfound"
              /\ hist[i].ret = "False"
              /\ hist[i].after = hist[i].before
              /\ hist[i].found = {}
              /\ hist[i].run = run =>
                    /\ ret[hist[i].op] = "False"
                    /\ Printed(hist[i].op, "Database not found")
                    /\ ~Printed("clean", "prompt")
    /\ pc \in {"prompt", "delete"} => pre.dbState # "absent"

\* C1 witness: all three operations have been run without a database while
\* UPLOAD_DIR holds a file
C1_Witness ==
    /\ pc = "exit"
    /\ Len(hist) = 3
    /\ \A i \in DOMAIN hist : hist[i].outcome = "notfound"
    /\ FilesIn(FS) # {}

\* C2: at the prompt the orphaned uploads are exactly the files of UPLOAD_DIR
\* equal to no non-null, non-empty audio_path, each listed once, and the
\* orphaned PDFs exactly the files of PDF_DIR equal to no non-null, non-empty
\* file_path; the scan reports nothing to do exactly when both sets are empty.
C2_OrphansAreSetDifference ==
    /\ pc = "prompt" =>
          /\ Range(upload_files) = OrphanUploads(pre)
          /\ Range(pdf_files) = OrphanPdfs(pre)
          /\ Len(upload_files) = Cardinality(OrphanUploads(pre))
          /\ Len(pdf_files) = Cardinality(OrphanPdfs(pre))
    /\ \A i \in DOMAIN hist :
          hist[i].op = "clean" /\ Scannable(hist[i].before) =>
              (hist[i].outcome = "nothing"
                  <=> OrphanUploads(hist[i].before) = {} /\ OrphanPdfs(hist[i].before) = {})

\* C2 witness: one upload is covered by an audio_path, another is orphaned,
\* and an audio_path that names a file of PDF_DIR leaves that file orphaned
C2_Witness ==
    /\ pc = "prompt"
    /\ \E f \in FilesOf("UPLOAD_DIR", uploads) : InList(f, meetings)
    /\ upload_files # <<>>
    /\ \E f \in FilesOf("PDF_DIR", pdfFiles) : InList(f, meetings) /\ InList(f, pdf_files)

\* C3: when clean_orphaned_files found an orphaned file and the operator's
\* answer is not "y" or "Y", the operation returns False and every file and
\* directory is as it was before the operation; the deletion loop is entered
\* only on "y" or "Y".
C3_DeclineChangesNothing ==
    /\ \A i \in DOMAIN hist :
          /\ hist[i].op = "clean"
          /\ hist[i].outcome \in {"aborted", "deleted"}
          /\ ~IsYes(hist[i].ans)
          => /\ hist[i].found # {}
             /\ hist[i].outcome = "aborted"
             /\ hist[i].ret = "False"
             /\ hist[i].after = hist[i].before
    /\ pc = "delete" => IsYes(answer)

\* C3 witness: the operator answered "yes" to a prompt about two orphans
C3_Witness ==
    /\ hist # <<>>
    /\ Last.op = "clean"
    /\ Last.outcome = "aborted"
    /\ Last.ans = "yes"
    /\ Cardinality(Last.found) = 2

\* C4: a scan that finds no orphan returns True without prompting and
\* without deleting; the prompt is reached only with an orphan found; and
\* no file of UPLOAD_DIR or PDF_DIR disappears before the prompt has been
\* answered "y" or "Y".
C4_NoOrphansNoPrompt ==
    /\ \A i \in DOMAIN hist :
          /\ hist[i].op = "clean"
          /\ Scannable(hist[i].before)
          /\ OrphanUploads(hist[i].before) = {}
          /\ OrphanPdfs(hist[i].before) = {}
          => /\ hist[i].outcome = "nothing"
             /\ hist[i].ret = "True"
             /\ hist[i].after = hist[i].before
             /\ hist[i].run = run => ~Printed("clean", "prompt")
    /\ Printed("clean", "prompt") =>
          \/ pc \in {"prompt", "delete"} /\ upload_files \o pdf_files # <<>>
          \/ pc \notin {"prompt", "delete"} /\ Last.op = "clean" /\ Last.found # {}
    /\ pc = "prompt" => FilesIn(FS) = FilesIn(pre)
    /\ \A i \in DOMAIN hist :
          FilesIn(hist[i].after) # FilesIn(hist[i].before) =>
              hist[i].op = "clean" /\ IsYes(hist[i].ans)

\* C4 witness: clean_orphaned_files returned with nothing to do although
\* UPLOAD_DIR holds a file
C4_Witness ==
    /\ hist # <<>>
    /\ Last.op = "clean"
    /\ Last.outcome = "nothing"
    /\ FilesOf("UPLOAD_DIR", uploads) # {}

\* C5: a confirmed clean_orphaned_files goes through every orphaned file: it
\* returns True, the files it removed are orphans it found, an orphan is
\* still there only if its deletion was reported as failed, the deleted count
\* is the number of orphans removed, and every failure is one orphan left.
C5_DeleteFailuresAreSkipped ==
    \A i \in DOMAIN hist :
        hist[i].op = "clean" /\ hist[i].outcome = "deleted" =>
            LET r == hist[i]
                gone == FilesIn(r.before) \ FilesIn(r.after)
            IN  /\ r.ret = "True"
                /\ r.found = OrphanUploads(r.before) \cup OrphanPdfs(r.before)
                /\ gone \subseteq r.found
                /\ FilesIn(r.after) \subseteq FilesIn(r.before)
                /\ r.count = Cardinality(gone)
                /\ [r.after EXCEPT !.uploads = r.before.uploads,
                                   !.pdfFiles = r.before.pdfFiles] = r.before
                /\ r.run = run =>
                      /\ \A f \in r.found \ gone :
                            \E k \in Failures : log[k].n = f
                      /\ Cardinality(Failures) + r.count = Cardinality(r.found)

\* C5 witness: of two orphans the first could not be deleted and the second
\* was, and the count printed is 1
C5_Witness ==
    /\ hist # <<>>
    /\ Last.op = "clean"
    /\ Last.outcome = "deleted"
    /\ Cardinality(Last.found) = 2
    /\ Last.count = 1
    /\ log[Len(log) - 1].msg = "Failed to delete"

\* C6: when backup_database returns True, the file named after the time of
\* the copy exists under DATA_DIR/backups with the content the database file
\* had when backup_database was called, and the database file is as it was;
\* when makedirs or the copy fails it returns False.
C6_BackupRoundTrip ==
    \A i \in DOMAIN hist :
        hist[i].op = "backup" =>
            LET r == hist[i]
            IN  /\ r.ret = "True" =>
                      /\ r.outcome = "ok"
                      /\ r.after.backupsDir
                      /\ r.at \in DOMAIN r.after.backups
                      /\ r.after.backups[r.at] =
                            [meetings |-> r.before.meetings,
                             pdfs |-> r.before.pdfs, whole |-> TRUE]
                      /\ r.after.dbState = r.before.dbState
                      /\ r.after.meetings = r.before.meetings
                      /\ r.after.pdfs = r.before.pdfs
                /\ r.outcome = "error" => r.ret = "False"
                /\ r.before.dbState # "absent" => r.outcome \in {"ok", "error"}

\* C6 witness: a database with a row has been backed up
C6_Witness ==
    /\ hist # <<>>
    /\ Last.op = "backup"
    /\ Last.ret = "True"
    /\ Len(Last.before.meetings) + Len(Last.before.pdfs) > 0

\* C7: the operations called in an invocation are, in this order, check,
\* backup and clean, each once if its flag occurs anywhere in the command
\* line and not at all otherwise; with no flag main prints the help, calls
\* nothing and leaves the host as it was, DATA_DIR included.
Selected == SelectSeq(Ops, LAMBDA op : \E i \in DOMAIN argv : argv[i] = FlagOf(op))
Calls == [i \in DOMAIN ThisRun |-> ThisRun[i].op]
C7_FixedOrder ==
    /\ Len(Calls) <= Len(Selected)
    /\ \A i \in DOMAIN Calls : Calls[i] = Selected[i]
    /\ pc = "exit" => Calls = Selected
    /\ pc \in OpSet => Len(Calls) < Len(Selected) /\ Selected[Len(Calls) + 1] = pc
    /\ pc \in {"prompt", "delete"} =>
          Len(Calls) < Len(Selected) /\ Selected[Len(Calls) + 1] = "clean"
    /\ pc = "exit" /\ Selected = <<>> =>
          /\ Printed("main", "usage")
          /\ Len(log) = 1
          /\ FS = pre
    /\ pc # "start" /\ Selected # <<>> => dataDir /\ ~Printed("main", "usage")

\* C7 witness: the flags were given in the order clean, backup, check and
\* all three operations have run
C7_Witness ==
    /\ pc = "exit"
    /\ argv = <<"--clean", "--backup", "--check">>
    /\ Calls = Ops

\* C8: no exception leaves an operation: an operation in which a query,
\* os.listdir, makedirs, the copy or input() raised returns False, main goes
\* on, and at the end every selected operation has returned True or False.
C8_FaultBoundary ==
    /\ pc # "crashed"
    /\ \A i \in DOMAIN hist :
          /\ hist[i].ret \in {"True", "False"}
          /\ hist[i].outcome = "error" => hist[i].ret = "False"
          /\ hist[i].before.dbState = "corrupt" /\ hist[i].op # "backup" =>
                hist[i].outcome = "error"
          /\ hist[i].before.dbState = "ok" /\ hist[i].op = "clean"
                /\ ~Scannable(hist[i].before) => hist[i].outcome = "error"
          /\ hist[i].ans = EOF => hist[i].outcome = "error"
    /\ pc = "exit" => \A op \in OpSet : Given(argv, op) <=> ret[op] \in {"True", "False"}

\* C8 witness: all three operations were selected and each one failed on an
\* exception
C8_Witness ==
    /\ pc = "exit"
    /\ Len(hist) = 3
    /\ \A i \in DOMAIN hist : hist[i].outcome = "error"

\* the operator was asked: the run found an orphan
Prompted(r) == r.found # {}
\* two consecutive runs of one operation with the same answer where both were
\* prompted, the first without a failed deletion, and for backup_database
\* both without a failed makedirs or copy
Rerun(a, b) ==
    /\ a.op = b.op
    /\ Prompted(a) /\ Prompted(b) => a.ans = b.ans
    /\ a.outcome = "deleted" => a.count = Cardinality(a.found)
    /\ a.op = "backup" => a.outcome # "error" /\ b.outcome # "error"

\* C9 as stated: running an operation a second time leaves the files and
\* directories as the first run left them, the backups included.
C9_Idempotent ==
    \A i \in DOMAIN hist : i < Len(hist) /\ Rerun(hist[i], hist[i + 1]) =>
        hist[i + 1].after = hist[i].after

\* C9 amended: a second run of check_database or clean_orphaned_files leaves
\* the files and directories as the first run left them, and after a run that
\* deleted every orphan the second finds none; a second successful
\* backup_database changes nothing but DATA_DIR/backups, where the file named
\* after its own second is present afterwards, so the set of backups is the
\* same only when both runs fall in the same second and is one larger
\* otherwise.
C9_IdempotentButBackup ==
    \A i \in DOMAIN hist : i < Len(hist) /\ Rerun(hist[i], hist[i + 1]) =>
        LET a == hist[i]
            b == hist[i + 1]
        IN  /\ b.before = a.after
            /\ b.op # "backup" => b.after = a.after
            /\ a.outcome = "deleted" => b.outcome = "nothing" /\ b.found = {}
            /\ b.op = "backup" /\ b.outcome = "ok" /\ a.outcome = "ok" =>
                  /\ [b.after EXCEPT !.backups = a.after.backups] = a.after
                  /\ DOMAIN b.after.backups = DOMAIN a.after.backups \cup {b.at}
                  /\ b.at = a.at => b.after = a.after
                  /\ b.at # a.at =>
                        Cardinality(DOMAIN b.after.backups)
                            = Cardinality(DOMAIN a.after.backups) + 1

\* C9 witness: a second successful backup, one second after the first
C9_Witness ==
    /\ Len(hist) = 2
    /\ Rerun(hist[1], hist[2])
    /\ hist[2].op = "backup"
    /\ hist[2].outcome = "ok"
    /\ hist[2].at # hist[1].at

\* C10 as stated: between operations and at the end of main no connection
\* opened by an operation that has returned is still without its close().
C10_ConnectionsClosed ==
    pc \in {"check", "backup", "clean", "exit"} => unclosed = {}
====
